---------------------------- MODULE Spec2Model ----------------------------
(***************************************************************************)
(* Model of map.js: the bike-share station map.  The state is the page's   *)
(* state: the position of the map's load handler, the fetched datasets,    *)
(* the objects they hold (a heap, so that sharing and in-place writes are  *)
(* visible), the radius scale, the svg's circle elements, the registered   *)
(* listeners, the slider and the map's viewport.                           *)
(*                                                                         *)
(* Numbers: pixel radii are kept in thousandths of a pixel (the square     *)
(* root of d3.scaleSqrt is taken on that grid); both ends of the scale and *)
(* its midpoint are exact.                                                 *)
(***************************************************************************)
EXTENDS Integers, Sequences, FiniteSets, TLC

VARIABLES
  pc,            \* position of the map.on('load') handler
  fetches,       \* state of the two requests: d3.json (l.112) and d3.csv (l.117)
  sources,       \* map sources added (l.95)
  layers,        \* map layers added (l.100)
  errorLog,      \* number of console.error calls (l.234)
  heap,          \* station objects by identity: oid -> object
  jsonData,      \* jsonData.data.stations: sequence of oids (l.112, l.127)
  trips,         \* the trips array (l.117)
  stations,      \* the latest aggregate: `stations` (l.130) / `filteredStations` (l.187)
  filteredTrips, \* the latest result of filterTripsByTime (l.186)
  timeFilter,    \* the filter of the latest aggregate (argument of updateScatterPlot)
  radiusScale,   \* d3.scaleSqrt() state: domain and range (l.136, l.190)
  dom,           \* the svg's circle elements, in document order
  circles,       \* the `circles` selection: sequence of element ids (l.143, l.195)
  listeners,     \* events with a registered listener (l.171-173, l.230)
  sliderValue,   \* timeSlider.value
  selectedTime,  \* selectedTime.textContent
  anyTimeLabel,  \* anyTimeLabel.style.display
  viewport       \* the map engine's viewport (read by map.project)

vars == <<pc, fetches, sources, layers, errorLog, heap, jsonData, trips, stations,
          filteredTrips, timeFilter, radiusScale, dom, circles, listeners,
          sliderValue, selectedTime, anyTimeLabel, viewport>>

---------------------------------------------------------------------------
(* Bounds of the model *)

MaxStations == 2
MaxTrips == 2

StationNames == {"A", "B", "C"}

\* Longitude and latitude of each station; trips may also name "X", a station
\* id that no station carries.
Lon(name) == CASE name = "A" -> 1 [] name = "B" -> 3 [] OTHER -> 6
Lat(name) == CASE name = "A" -> 2 [] name = "B" -> 5 [] OTHER -> 1

Time(h, m) == [hours |-> h, minutes |-> m]

Trip(s, e, t0, t1) ==
  [start_station_id |-> s, end_station_id |-> e, started_at |-> t0, ended_at |-> t1]

\* Rows of the trips CSV after the row callback (l.119-123) parsed the dates.
TripPool ==
  { Trip("A", "B", Time(11, 40), Time(11, 50)),   \* starts at minute 700
    Trip("A", "A", Time(23, 50), Time(23, 50)),   \* round trip at minute 1430
    Trip("X", "C", Time(0, 10), Time(0, 20)),     \* unknown start station
    Trip("B", "X", Time(5, 0), Time(6, 40)) }     \* unknown end station, ends at 400

\* Slider positions: the sentinel and minutes of the day.
SliderValues == {-1, 5, 400, 650, 760}

\* Viewports of the map: the configured one (l.13-14) and a panned, zoomed one.
HomeView == [x |-> 0, zoom |-> 1]
Viewports == {HomeView, [x |-> 4, zoom |-> 2]}

MapEvents == {"move", "zoom", "resize"}

---------------------------------------------------------------------------
(* Sequences *)

RECURSIVE SeqsUpTo(_, _)
SeqsUpTo(S, n) ==
  IF n = 0 THEN {<<>>}
  ELSE LET shorter == SeqsUpTo(S, n - 1)
       IN shorter \cup {Append(s, x) : s \in {t \in shorter : Len(t) = n - 1}, x \in S}

Distinct(s) == \A i, j \in DOMAIN s : i # j => s[i] # s[j]

\* Station lists of the stations JSON: stations are identified by short_name.
StationLists == {s \in SeqsUpTo(StationNames, MaxStations) : Distinct(s)}

TripLists == SeqsUpTo(TripPool, MaxTrips)

Range(s) == {s[i] : i \in DOMAIN s}

MaxOf(S) == CHOOSE x \in S : \A y \in S : y <= x

MinOf(S) == CHOOSE x \in S : \A y \in S : x <= y

Abs(x) == IF x < 0 THEN -x ELSE x

EmptyMap == [k \in {} |-> 0]

---------------------------------------------------------------------------
(* Objects *)

\* A station object of the stations JSON: no traffic fields yet.
StationObject(name) ==
  [short_name |-> name, lon |-> Lon(name), lat |-> Lat(name),
   augmented |-> FALSE, arrivals |-> 0, departures |-> 0, totalTraffic |-> 0]

\* Allocation of a new object: an identity no live object has.
NewOid(h) == MinOf({o \in 1..(Cardinality(DOMAIN h) + 1) : o \notin DOMAIN h})

\* Garbage collection: only the objects reachable from `roots` stay.
Collect(h, roots) == [o \in (DOMAIN h \cap roots) |-> h[o]]

\* JSON.parse of the stations document: one new object per station.
RECURSIVE ParseStations(_, _)
ParseStations(h, names) ==
  IF names = <<>> THEN [heap |-> h, out |-> <<>>]
  ELSE LET prev == ParseStations(h, SubSeq(names, 1, Len(names) - 1))
           o == NewOid(prev.heap)
       IN [heap |-> prev.heap @@ (o :> StationObject(names[Len(names)])),
           out |-> Append(prev.out, o)]

\* stationsOriginal.map(o => ({ ...o })) (l.131): a shallow copy of each object.
RECURSIVE CopyStations(_, _)
CopyStations(h, refs) ==
  IF refs = <<>> THEN [heap |-> h, out |-> <<>>]
  ELSE LET prev == CopyStations(h, SubSeq(refs, 1, Len(refs) - 1))
           o == NewOid(prev.heap)
       IN [heap |-> prev.heap @@ (o :> prev.heap[refs[Len(refs)]]),
           out |-> Append(prev.out, o)]

---------------------------------------------------------------------------
(* Traffic aggregation, l.41-63 *)

\* d3.rollup(trips, v => v.length, d => d[field]): a Map from key to count.
RECURSIVE rollup(_, _)
rollup(ts, field) ==
  IF ts = <<>> THEN EmptyMap
  ELSE LET m == rollup(SubSeq(ts, 1, Len(ts) - 1), field)
           k == ts[Len(ts)][field]
       IN IF k \in DOMAIN m THEN [m EXCEPT ![k] = @ + 1] ELSE m @@ (k :> 1)

\* map.get(id) ?? 0
GetOrZero(m, id) == IF id \in DOMAIN m THEN m[id] ELSE 0

\* The object literal of l.56-61: the spread of st, then the three counts.
Augment(st, arrivals, departures) ==
  [st EXCEPT !.augmented = TRUE,
             !.arrivals = GetOrZero(arrivals, st.short_name),
             !.departures = GetOrZero(departures, st.short_name),
             !.totalTraffic = GetOrZero(arrivals, st.short_name)
                              + GetOrZero(departures, st.short_name)]

\* stations.map(st => ({...})) (l.54-62): a new object per station, in order.
RECURSIVE MapStations(_, _, _, _)
MapStations(h, refs, arrivals, departures) ==
  IF refs = <<>> THEN [heap |-> h, out |-> <<>>]
  ELSE LET prev == MapStations(h, SubSeq(refs, 1, Len(refs) - 1), arrivals, departures)
           o == NewOid(prev.heap)
       IN [heap |-> prev.heap @@ (o :> Augment(prev.heap[refs[Len(refs)]], arrivals, departures)),
           out |-> Append(prev.out, o)]

\* Variant: both tables keyed by the start station.
computeStationTrafficByStart(h, refs, ts) ==
  MapStations(h, refs, rollup(ts, "start_station_id"), rollup(ts, "start_station_id"))

\* Variant: the counts are written onto the station objects passed in.
RECURSIVE AugmentInPlace(_, _, _, _)
AugmentInPlace(h, refs, arrivals, departures) ==
  IF refs = <<>> THEN h
  ELSE [AugmentInPlace(h, SubSeq(refs, 2, Len(refs)), arrivals, departures)
          EXCEPT ![refs[1]] = Augment(h[refs[1]], arrivals, departures)]

computeStationTrafficInPlace(h, refs, ts) ==
  [heap |-> AugmentInPlace(h, refs, rollup(ts, "end_station_id"),
                           rollup(ts, "start_station_id")),
   out |-> refs]

computeStationTraffic(h, refs, ts) ==
  MapStations(h, refs, rollup(ts, "end_station_id"), rollup(ts, "start_station_id"))

---------------------------------------------------------------------------
(* Time filter, l.68-87 *)

Sentinel == -1
Window == 60

minutesSinceMidnight(date) == date.hours * 60 + date.minutes

\* Variant: the distance is taken around the clock, across midnight.
ClockDistance(a, b) == IF Abs(a - b) <= 720 THEN Abs(a - b) ELSE 1440 - Abs(a - b)

InWindowAcrossMidnight(trip, m) ==
  \/ ClockDistance(minutesSinceMidnight(trip.started_at), m) <= Window
  \/ ClockDistance(minutesSinceMidnight(trip.ended_at), m) <= Window

InWindow(trip, m) ==
  \/ Abs(minutesSinceMidnight(trip.started_at) - m) <= Window
  \/ Abs(minutesSinceMidnight(trip.ended_at) - m) <= Window

\* An array is its identity and its items; Array.prototype.filter makes a new one.
filterTripsByTime(arr, m) ==
  IF m = Sentinel THEN arr
  ELSE [array |-> "filtered", items |-> SelectSeq(arr.items, LAMBDA t : InWindow(t, m))]

\* formatTime (l.33-36): the en-US short time of minute `minutes` of a day.
formatTime(minutes) ==
  LET h == (minutes \div 60) % 24
      h12 == IF h % 12 = 0 THEN 12 ELSE h % 12
  IN <<h12, minutes % 60, IF h < 12 THEN "AM" ELSE "PM">>

---------------------------------------------------------------------------
(* Scales, l.89 and l.136-138, l.190-192 *)

\* d3.max(values): undefined for an empty array.
d3max(values) ==
  IF values = <<>> THEN [isNumber |-> FALSE, value |-> 0]
  ELSE [isNumber |-> TRUE, value |-> MaxOf(Range(values))]

TotalTraffics(h, refs) == [i \in DOMAIN refs |-> h[refs[i]].totalTraffic]

\* radiusScale.domain([0, d3.max(...)]).range(range)
SetScale(mx, range) ==
  [domain |-> [lo |-> 0, hi |-> mx.value, hiIsNumber |-> mx.isNumber], range |-> range]

\* Integer square root: the r in lo..hi with r * r <= n < (r + 1) * (r + 1).
RECURSIVE SqrtBetween(_, _, _)
SqrtBetween(n, lo, hi) ==
  IF lo = hi THEN lo
  ELSE LET mid == (lo + hi + 1) \div 2
       IN IF mid * mid <= n THEN SqrtBetween(n, mid, hi) ELSE SqrtBetween(n, lo, mid - 1)

\* 46340 is the largest integer whose square is below 2^31.
isqrt(n) == SqrtBetween(n, 0, 46340)

\* radiusScale(x), in thousandths of a pixel.  d3's continuous scale maps x
\* to r0 + t * (r1 - r0) with t = (sqrt(x) - sqrt(lo)) / (sqrt(hi) - sqrt(lo));
\* for a collapsed domain (hi = lo) t is the constant 0.5; for a domain whose
\* end is not a number the result is NaN, written -1 here.
scaleSqrt(scale, x) ==
  LET r0 == scale.range[1]
      r1 == scale.range[2]
  IN IF ~scale.domain.hiIsNumber THEN -1
     ELSE IF scale.domain.hi = scale.domain.lo THEN (r0 + r1) * 500
     ELSE r0 * 1000 + isqrt((x * 1000000) \div scale.domain.hi) * (r1 - r0)

\* stationFlow = d3.scaleQuantize().domain([0, 1]).range([0, 0.5, 1]) applied to
\* departures / totalTraffic: thresholds 1/3 and 2/3, found by bisecting to the
\* right; a NaN input (0 / 0) gives the scale's unknown value, undefined.
stationFlow(departures, totalTraffic) ==
  IF totalTraffic = 0 THEN "undefined"
  ELSE IF 3 * departures < totalTraffic THEN "0"
  ELSE IF 3 * departures < 2 * totalTraffic THEN "0.5"
  ELSE "1"

\* selection.style(name, v): a null or undefined v removes the property.
StyleValue(v) == IF v = "undefined" THEN "" ELSE v

---------------------------------------------------------------------------
(* Coordinates, l.24-28 and l.164-168 *)

\* map.project of the station's position under viewport vp.
getCoords(station, vp) ==
  [cx |-> (station.lon - vp.x) * vp.zoom, cy |-> (0 - station.lat) * vp.zoom]

\* Variant: the radius follows the zoom as well.
updatePositionsAndZoomRadius(d, sel, h, vp) ==
  [i \in DOMAIN d |->
     IF d[i].elt \in Range(sel)
     THEN [d[i] EXCEPT !.cx = getCoords(h[d[i].data], vp).cx,
                       !.cy = getCoords(h[d[i].data], vp).cy,
                       !.r = d[i].r * vp.zoom]
     ELSE d[i]]

\* updatePositions: cx and cy of every element of the `circles` selection.
updatePositions(d, sel, h, vp) ==
  [i \in DOMAIN d |->
     IF d[i].elt \in Range(sel)
     THEN [d[i] EXCEPT !.cx = getCoords(h[d[i].data], vp).cx,
                       !.cy = getCoords(h[d[i].data], vp).cy]
     ELSE d[i]]

---------------------------------------------------------------------------
(* Circles and the data join, l.143-159 and l.195-208 *)

\* Variant: the datum itself is the key.
stationKeyIsObject(h, ref) == ref

\* The key function d => d.short_name (l.144, l.196).
stationKey(h, ref) == h[ref].short_name

Elts(d) == {d[i].elt : i \in DOMAIN d}

NewElt(used) == MinOf({e \in 1..(Cardinality(used) + 1) : e \notin used})

\* append("circle") with the fixed fill, stroke and opacity: no radius, no
\* title, no --departure-ratio and no position yet.
NewCircle(e, ref) ==
  [elt |-> e, data |-> ref, r |-> 0, title |-> <<>>, departure_ratio |-> "",
   cx |-> 0, cy |-> 0]

\* selection.data(data, key): datum i is bound to the first element carrying
\* its key unless an earlier datum took it; otherwise it enters as a new
\* element.  The result lists, in data order, the updated and the entered
\* elements.
RECURSIVE BindData(_, _, _, _)
BindData(h, old, data, i) ==
  IF i = 0 THEN <<>>
  ELSE LET prev == BindData(h, old, data, i - 1)
           key == stationKey(h, data[i])
           taken == \E j \in 1..(i - 1) : stationKey(h, data[j]) = key
           matches == {n \in DOMAIN old : stationKey(h, old[n].data) = key}
       IN IF matches # {} /\ ~taken
          THEN Append(prev, [old[MinOf(matches)] EXCEPT !.data = data[i]])
          ELSE Append(prev, NewCircle(NewElt(Elts(old) \cup Elts(prev)), data[i]))

\* The title text `${totalTraffic} trips (${departures} departures, ${arrivals} arrivals)`.
TitleText(st) == <<st.totalTraffic, st.departures, st.arrivals>>

\* Variant: the title is rewritten with the radius.
SizeColorAndTitle(e, h, scale) ==
  [e EXCEPT !.r = scaleSqrt(scale, h[e.data].totalTraffic),
            !.departure_ratio =
               StyleValue(stationFlow(h[e.data].departures, h[e.data].totalTraffic)),
            !.title = TitleText(h[e.data])]

\* .attr("r", ...) and .style('--departure-ratio', ...) of one element.
SizeAndColor(e, h, scale) ==
  [e EXCEPT !.r = scaleSqrt(scale, h[e.data].totalTraffic),
            !.departure_ratio =
               StyleValue(stationFlow(h[e.data].departures, h[e.data].totalTraffic))]

\* The initial draw (l.143-159): the entering elements only, each with its
\* radius, its title and its --departure-ratio, appended to the svg.
DrawInitial(h, old, data, scale) ==
  LET bound == BindData(h, old, data, Len(data))
      entered == SelectSeq(bound, LAMBDA e : e.elt \notin Elts(old))
  IN [i \in DOMAIN entered |->
        [SizeAndColor(entered[i], h, scale) EXCEPT !.title = TitleText(h[entered[i].data])]]

\* The join of updateScatterPlot (l.195-208): entered and updated elements in
\* data order, the exiting ones removed; radius and --departure-ratio set on
\* all of them.
JoinCircles(h, old, data, scale) ==
  LET bound == BindData(h, old, data, Len(data))
  IN [i \in DOMAIN bound |-> SizeAndColor(bound[i], h, scale)]

Selection(d) == [i \in DOMAIN d |-> d[i].elt]

DataOf(d) == {d[i].data : i \in DOMAIN d}

---------------------------------------------------------------------------
(* updateScatterPlot, l.185-211: the values it computes from the current state *)

UnfilteredRange == <<0, 20>>
FilteredRange == <<2, 25>>
InitialRange == <<0, 25>>

updateScatterPlot(tf) ==
  LET ft == filterTripsByTime(trips, tf)
      agg == computeStationTraffic(heap, jsonData, ft.items)
      scale == SetScale(d3max(TotalTraffics(agg.heap, agg.out)),
                        IF tf = Sentinel THEN UnfilteredRange ELSE FilteredRange)
      joined == JoinCircles(agg.heap, dom, agg.out, scale)
      placed == updatePositions(joined, Selection(joined), agg.heap, viewport)
  IN [filteredTrips |-> ft,
      stations |-> agg.out,
      radiusScale |-> scale,
      dom |-> placed,
      circles |-> Selection(joined),
      heap |-> Collect(agg.heap, Range(jsonData) \cup DataOf(placed))]

\* updateTimeDisplay, l.216-228, for slider value v.
updateTimeDisplay(v) ==
  \E u \in {updateScatterPlot(v)} :
     /\ selectedTime' = IF v = Sentinel THEN <<>> ELSE formatTime(v)
     /\ anyTimeLabel' = IF v = Sentinel THEN "block" ELSE "none"
     /\ timeFilter' = v
     /\ filteredTrips' = u.filteredTrips
     /\ stations' = u.stations
     /\ radiusScale' = u.radiusScale
     /\ dom' = u.dom
     /\ circles' = u.circles
     /\ heap' = u.heap

---------------------------------------------------------------------------
(* The state machine *)

NoArray == [array |-> "none", items |-> <<>>]

Idle == [stations |-> "idle", trips |-> "idle"]

Init ==
  /\ pc = "unloaded"
  /\ fetches = Idle
  /\ sources = {}
  /\ layers = {}
  /\ errorLog = 0
  /\ heap = EmptyMap
  /\ jsonData = <<>>
  /\ trips = NoArray
  /\ stations = <<>>
  /\ filteredTrips = NoArray
  /\ timeFilter = Sentinel
  /\ radiusScale = SetScale(d3max(<<>>), InitialRange)
  /\ dom = <<>>
  /\ circles = <<>>
  /\ listeners = {}
  /\ sliderValue \in SliderValues
  /\ selectedTime = <<>>
  /\ anyTimeLabel = ""
  /\ viewport = HomeView

\* Variant: both fetches are started together.
MapLoadBothFetches ==
  /\ pc = "unloaded"
  /\ sources' = {"boston_route"}
  /\ layers' = {"bike-lanes"}
  /\ fetches' = [stations |-> "pending", trips |-> "pending"]
  /\ pc' = "awaitStations"
  /\ UNCHANGED <<errorLog, heap, jsonData, trips, stations, filteredTrips, timeFilter,
                 radiusScale, dom, circles, listeners, sliderValue, selectedTime,
                 anyTimeLabel, viewport>>

\* map.on('load', ...), l.94-114: the source, the layer, and the stations
\* fetch is started.
MapLoad ==
  /\ pc = "unloaded"
  /\ sources' = {"boston_route"}
  /\ layers' = {"bike-lanes"}
  /\ fetches' = [fetches EXCEPT !.stations = "pending"]
  /\ pc' = "awaitStations"
  /\ UNCHANGED <<errorLog, heap, jsonData, trips, stations, filteredTrips, timeFilter,
                 radiusScale, dom, circles, listeners, sliderValue, selectedTime,
                 anyTimeLabel, viewport>>

\* d3.json resolves (l.112); the trips fetch is started (l.117).
StationsLoaded ==
  /\ pc = "awaitStations"
  /\ \E names \in StationLists :
       LET p == ParseStations(heap, names)
       IN /\ heap' = p.heap
          /\ jsonData' = p.out
  /\ fetches' = [stations |-> "done", trips |-> "pending"]
  /\ pc' = "awaitTrips"
  /\ UNCHANGED <<sources, layers, errorLog, trips, stations, filteredTrips, timeFilter,
                 radiusScale, dom, circles, listeners, sliderValue, selectedTime,
                 anyTimeLabel, viewport>>

\* Variant: a failed trips fetch is logged and the stations are drawn without trips.
FetchFailedDrawsAnyway ==
  /\ pc \in {"awaitStations", "awaitTrips"}
  /\ errorLog' = errorLog + 1
  /\ fetches' = IF pc = "awaitStations"
                THEN [fetches EXCEPT !.stations = "failed"]
                ELSE [fetches EXCEPT !.trips = "failed"]
  /\ pc' = "failed"
  /\ \E agg \in {computeStationTraffic(heap, jsonData, <<>>)} :
       /\ heap' = agg.heap
       /\ stations' = agg.out
       /\ dom' = DrawInitial(agg.heap, dom, agg.out, radiusScale)
       /\ circles' = Selection(DrawInitial(agg.heap, dom, agg.out, radiusScale))
  /\ UNCHANGED <<sources, layers, jsonData, trips, filteredTrips,
                 timeFilter, radiusScale, listeners, sliderValue,
                 selectedTime, anyTimeLabel, viewport>>

\* A rejected fetch is caught and logged (l.233-235).
FetchFailed ==
  /\ pc \in {"awaitStations", "awaitTrips"}
  /\ errorLog' = errorLog + 1
  /\ fetches' = IF pc = "awaitStations"
                THEN [fetches EXCEPT !.stations = "failed"]
                ELSE [fetches EXCEPT !.trips = "failed"]
  /\ pc' = "failed"
  /\ UNCHANGED <<sources, layers, heap, jsonData, trips, stations, filteredTrips,
                 timeFilter, radiusScale, dom, circles, listeners, sliderValue,
                 selectedTime, anyTimeLabel, viewport>>

\* d3.csv resolves (l.117); l.126-230 run: the first aggregate, the radius
\* scale, the initial draw, the positions and the listeners.
TripsLoaded ==
  /\ pc = "awaitTrips"
  /\ \E ts \in TripLists :
       LET copy == CopyStations(heap, jsonData)
           agg == computeStationTraffic(copy.heap, copy.out, ts)
           scale == SetScale(d3max(TotalTraffics(agg.heap, agg.out)), InitialRange)
           drawn == dom \o DrawInitial(agg.heap, dom, agg.out, scale)
           sel == Selection(DrawInitial(agg.heap, dom, agg.out, scale))
           placed == updatePositions(drawn, sel, agg.heap, viewport)
       IN /\ trips' = [array |-> "trips", items |-> ts]
          /\ stations' = agg.out
          /\ radiusScale' = scale
          /\ dom' = placed
          /\ circles' = sel
          /\ heap' = Collect(agg.heap, Range(jsonData) \cup DataOf(placed))
  /\ listeners' = MapEvents \cup {"input"}
  /\ fetches' = [fetches EXCEPT !.trips = "done"]
  /\ pc' = "initialDrawn"
  /\ UNCHANGED <<sources, layers, errorLog, jsonData, filteredTrips, timeFilter,
                 sliderValue, selectedTime, anyTimeLabel, viewport>>

\* The call updateTimeDisplay() that ends the load handler (l.231).
InitialTimeDisplay ==
  /\ pc = "initialDrawn"
  /\ updateTimeDisplay(sliderValue)
  /\ pc' = "ready"
  /\ UNCHANGED <<fetches, sources, layers, errorLog, jsonData, trips, listeners, sliderValue,
                 viewport>>

\* The user moves the slider; its "input" listener, if registered, runs.
SliderInput ==
  /\ pc # "initialDrawn"
  /\ \E v \in SliderValues \ {sliderValue} :
       /\ sliderValue' = v
       /\ IF "input" \in listeners
          THEN updateTimeDisplay(v)
          ELSE UNCHANGED <<selectedTime, anyTimeLabel, timeFilter, filteredTrips,
                           stations, radiusScale, dom, circles, heap>>
  /\ UNCHANGED <<pc, fetches, sources, layers, errorLog, jsonData, trips, listeners, viewport>>

\* The map moves, zooms or is resized; updatePositions, if registered, runs.
MapEvent ==
  /\ pc # "initialDrawn"
  /\ \E v \in Viewports \ {viewport} :
       /\ viewport' = v
       /\ dom' = IF listeners \cap MapEvents # {}
                 THEN updatePositions(dom, circles, heap, v)
                 ELSE dom
  /\ UNCHANGED <<pc, fetches, sources, layers, errorLog, heap, jsonData, trips, stations,
                 filteredTrips, timeFilter, radiusScale, circles, listeners,
                 sliderValue, selectedTime, anyTimeLabel>>

Next ==
  \/ MapLoad
  \/ StationsLoaded
  \/ FetchFailed
  \/ TripsLoaded
  \/ InitialTimeDisplay
  \/ SliderInput
  \/ MapEvent

Spec == Init /\ [][Next]_vars

---------------------------------------------------------------------------
(* Properties *)

\* The number of trips of T whose `field` is `id`.
CountTrips(T, field, id) == Cardinality({k \in DOMAIN T : T[k][field] = id})

MinuteOfDay(date) == 60 * date.hours + date.minutes

\* A trip's start or end minute is within 60 minutes of m, by plain difference.
Near(trip, m) ==
  \/ (m - 60 <= MinuteOfDay(trip.started_at) /\ MinuteOfDay(trip.started_at) <= m + 60)
  \/ (m - 60 <= MinuteOfDay(trip.ended_at) /\ MinuteOfDay(trip.ended_at) <= m + 60)

Aggregated == pc \in {"initialDrawn", "ready"}

\* The trips the latest aggregate was computed from.
AggregatedTrips == IF pc = "initialDrawn" THEN trips.items ELSE filteredTrips.items

CanonicalNames == {heap[jsonData[i]].short_name : i \in DOMAIN jsonData}

\* C1: the aggregate has the length and the order of the station list; each
\* station's departures and arrivals are the numbers of trips that start and
\* end at its short_name, totalTraffic is their sum; a trip of an unknown
\* station counts nowhere and adds no entry.
C1_TrafficCountsTrips ==
  Aggregated =>
    /\ Len(stations) = Len(jsonData)
    /\ \A i \in DOMAIN stations :
         LET st == heap[stations[i]]
             id == heap[jsonData[i]].short_name
         IN /\ st.short_name = id
            /\ st.departures = CountTrips(AggregatedTrips, "start_station_id", id)
            /\ st.arrivals = CountTrips(AggregatedTrips, "end_station_id", id)
            /\ st.totalTraffic = st.arrivals + st.departures

\* C1's case: an aggregate over trips, one of them of an unknown station, with
\* a busy station and an idle one.
C1_Witness ==
  /\ pc = "ready"
  /\ \E k \in DOMAIN AggregatedTrips :
       AggregatedTrips[k].start_station_id \notin CanonicalNames
  /\ \E i \in DOMAIN stations : heap[stations[i]].totalTraffic > 0
  /\ \E i \in DOMAIN stations : heap[stations[i]].totalTraffic = 0

\* Minutes of the day around the trips' times and their 60-minute edges.
ProbeMinutes ==
  {0, 5, 70, 71, 239, 240, 360, 361, 400, 460, 461, 639, 640, 650, 700, 760,
   770, 771, 1369, 1370, 1430, 1439}

\* C2: with the sentinel the filter returns the trips array itself; with a
\* minute m it returns, in input order, exactly the trips whose start or end
\* minute differs from m by at most 60, without wrapping at midnight: a trip
\* at minute 1430 is not matched by m = 5; a trip starting at 700 is matched
\* by 650 and 760 and not by 400.  Checked on the filter of every slider
\* update and, once the trips are loaded, on each of ProbeMinutes.
C2_FilterKeepsWindow ==
  /\ pc = "initialDrawn" =>
       \A m \in ProbeMinutes :
         filterTripsByTime(trips, m).items = SelectSeq(trips.items, LAMBDA t : Near(t, m))
  /\ pc = "ready" =>
    IF timeFilter = -1
    THEN filteredTrips = trips
    ELSE /\ filteredTrips.items = SelectSeq(trips.items, LAMBDA t : Near(t, timeFilter))
         /\ \A k \in DOMAIN trips.items :
              LET t == trips.items[k]
                  kept == t \in Range(filteredTrips.items)
              IN /\ (MinuteOfDay(t.started_at) = 700 /\ timeFilter \in {650, 760}) => kept
                 /\ (MinuteOfDay(t.started_at) = 700 /\ MinuteOfDay(t.ended_at) = 710
                       /\ timeFilter = 400) => ~kept
                 /\ (MinuteOfDay(t.started_at) = 1430 /\ MinuteOfDay(t.ended_at) = 1430
                       /\ timeFilter = 5) => ~kept

\* C2's case: the filter at minute 5 dropped the trip of minute 1430 and kept
\* the other one.
C2_Witness ==
  /\ pc = "ready"
  /\ timeFilter = 5
  /\ Len(trips.items) = 2
  /\ Len(filteredTrips.items) = 1
  /\ \E k \in DOMAIN trips.items : MinuteOfDay(trips.items[k].started_at) = 1430

\* C3: whenever circles are drawn the radius scale has domain [0, max
\* totalTraffic of the current aggregate] and range [0, 20] without a filter,
\* [2, 25] with one; a station without traffic gets the range's minimum and
\* the busiest station its maximum.
C3_RadiusScaleFollowsFilter ==
  dom # <<>> =>
    LET mx == MaxOf({heap[stations[i]].totalTraffic : i \in DOMAIN stations})
        lo == IF timeFilter = -1 THEN 0 ELSE 2
        hi == IF timeFilter = -1 THEN 20 ELSE 25
    IN /\ radiusScale.domain = [lo |-> 0, hi |-> mx, hiIsNumber |-> TRUE]
       /\ radiusScale.range = <<lo, hi>>
       /\ \A i \in DOMAIN dom :
            /\ heap[dom[i].data].totalTraffic = 0 => dom[i].r = lo * 1000
            /\ (mx > 0 /\ heap[dom[i].data].totalTraffic = mx) => dom[i].r = hi * 1000

\* C4: the --departure-ratio of a circle whose station has no traffic is one
\* of the buckets 0, 0.5, 1.
C4_ZeroTrafficRatioIsBucket ==
  \A i \in DOMAIN dom :
    heap[dom[i].data].totalTraffic = 0 => dom[i].departure_ratio \in {"0", "0.5", "1"}

\* C5: once loaded, the station list and its objects, and the trips array,
\* never change: no station object gains the traffic fields, none is added,
\* removed or reordered, and the objects of every aggregate are others than
\* the station list's.
C5_DatasetsReadOnly ==
  [][/\ fetches.stations = "done" =>
          /\ jsonData' = jsonData
          /\ \A i \in DOMAIN jsonData :
               /\ heap'[jsonData[i]] = heap[jsonData[i]]
               /\ ~heap'[jsonData[i]].augmented
          /\ \A i \in DOMAIN stations' : stations'[i] \notin Range(jsonData')
     /\ fetches.trips = "done" => trips' = trips]_vars

\* C5's case: a second aggregate, under a time filter, has been computed from
\* the station list.
C5_Witness ==
  /\ pc = "ready"
  /\ timeFilter # -1
  /\ \E i \in DOMAIN stations : heap[stations[i]].totalTraffic > 0
  /\ \A i \in DOMAIN jsonData : ~heap[jsonData[i]].augmented

\* C6: a map event changes only cx and cy of the circles of the current
\* selection, to the projection of each circle's station under the new
\* viewport; the circles, their data, radius and --departure-ratio, the scale,
\* the filter and the aggregate stay.
C6_MapEventOnlyMovesCircles ==
  [][viewport' # viewport =>
       /\ UNCHANGED <<pc, fetches, heap, jsonData, trips, stations, filteredTrips,
                      timeFilter, radiusScale, circles, listeners, sliderValue,
                      selectedTime, anyTimeLabel>>
       /\ Len(dom') = Len(dom)
       /\ \A i \in DOMAIN dom :
            /\ [dom'[i] EXCEPT !.cx = 0, !.cy = 0] = [dom[i] EXCEPT !.cx = 0, !.cy = 0]
            /\ dom[i].elt \in Range(circles) =>
                 /\ dom'[i].cx = (heap[dom[i].data].lon - viewport'.x) * viewport'.zoom
                 /\ dom'[i].cy = (0 - heap[dom[i].data].lat) * viewport'.zoom]_vars

\* C6's case: after a slider update with a time filter the map is away from
\* its first viewport and the circles sit at their projections.
C6_Witness ==
  /\ pc = "ready"
  /\ timeFilter # -1
  /\ viewport # HomeView
  /\ dom # <<>>
  /\ \A i \in DOMAIN dom :
       dom[i].cx = (heap[dom[i].data].lon - viewport.x) * viewport.zoom

\* C7: after a failed fetch the error is logged once, setup stays aborted, and
\* there is no circle and no listener, whatever events follow.
C7_FailureDrawsNothing ==
  [][/\ pc = "failed" => pc' = "failed"
     /\ pc' = "failed" =>
          /\ errorLog' = 1
          /\ dom' = <<>>
          /\ circles' = <<>>
          /\ listeners' = {}]_vars

\* C7's case: the trips fetch failed after the stations arrived, and the map
\* has been moved since.
C7_Witness ==
  /\ pc = "failed"
  /\ fetches.trips = "failed"
  /\ jsonData # <<>>
  /\ viewport # HomeView

\* C8: after a successful load there is exactly one circle per station of the
\* station list, in its order, bound to that station's latest aggregate; a
\* slider input keeps every circle element and its key.
C8_OneCirclePerStation ==
  [][/\ pc' \in {"initialDrawn", "ready"} =>
          /\ Len(dom') = Len(jsonData')
          /\ \A i \in DOMAIN dom' :
               /\ heap'[dom'[i].data].short_name = heap'[jsonData'[i]].short_name
               /\ dom'[i].data = stations'[i]
               /\ \A j \in DOMAIN dom' : dom'[j].elt = dom'[i].elt => j = i
     /\ pc \in {"initialDrawn", "ready"} =>
          /\ Elts(dom') = Elts(dom)
          /\ \A i \in DOMAIN dom : \E j \in DOMAIN dom' :
               /\ dom'[j].elt = dom[i].elt
               /\ heap'[dom'[j].data].short_name = heap[dom[i].data].short_name]_vars

\* C8's case: under a time filter two circles are shown, one of a station
\* that has no traffic in the window.
C8_Witness ==
  /\ pc = "ready"
  /\ timeFilter # -1
  /\ Len(dom) = 2
  /\ \E i \in DOMAIN dom : heap[dom[i].data].totalTraffic = 0
  /\ \E i \in DOMAIN dom : heap[dom[i].data].totalTraffic > 0

\* C9: nothing is set up before the load event; the trips fetch starts only
\* when the stations fetch is done; circles and listeners exist only when both
\* fetches are done.
C9_StartupOrdered ==
  /\ pc = "unloaded" =>
       /\ fetches = Idle
       /\ sources = {} /\ layers = {}
       /\ jsonData = <<>> /\ trips = NoArray
  /\ fetches.trips # "idle" => fetches.stations = "done"
  /\ (dom # <<>> \/ circles # <<>> \/ listeners # {}) =>
       fetches = [stations |-> "done", trips |-> "done"]

\* C9's case: the stations have arrived, the trips fetch is under way, and
\* nothing is drawn or registered.
C9_Witness ==
  /\ fetches = [stations |-> "done", trips |-> "pending"]
  /\ jsonData # <<>>
  /\ dom = <<>>
  /\ listeners = {}

\* C10: a circle's title always holds the counts of the aggregate over all
\* trips: it is written at the initial draw and no slider input rewrites it.
C10_TitleKeepsUnfilteredCounts ==
  \A i \in DOMAIN dom :
    LET id == heap[dom[i].data].short_name
        dep == CountTrips(trips.items, "start_station_id", id)
        arr == CountTrips(trips.items, "end_station_id", id)
    IN dom[i].title = <<arr + dep, dep, arr>>

\* C10's case: under a time filter a circle's title shows more trips than the
\* aggregate bound to it, which its radius follows.
C10_Witness ==
  /\ pc = "ready"
  /\ timeFilter # -1
  /\ \E i \in DOMAIN dom :
       /\ dom[i].title[1] > heap[dom[i].data].totalTraffic
       /\ dom[i].r = scaleSqrt(radiusScale, heap[dom[i].data].totalTraffic)

===========================================================================
